---------------------------- MODULE Spec2Model ----------------------------
(***************************************************************************)
(* Drowsy front end: the drowsiness alarm hook (useDrowsinessAlarm) driven *)
(* by the detection screen's 1 s sampler (DetectionScreen).                *)
(*                                                                         *)
(* Numbers.  Durations are fixed-point with Scale units per second, so     *)
(* that pollingInterval / 1000 and a fractional thresholdSeconds are exact *)
(* integers here: eyesClosedCounterRef and thresholdSeconds hold           *)
(* (seconds * Scale), pollingInterval holds milliseconds.  The polling     *)
(* intervals of the model are multiples of 125 ms, whose quotient by 1000  *)
(* and whose sums are exact in IEEE double as well, so Math.floor of the   *)
(* accumulator is the integer quotient by Scale.  EAR values are in        *)
(* hundredths; NaN stands for a non-finite reading that compares false.    *)
(*                                                                         *)
(* The statistics screen (StatsScreen) mirrors the alert and emotion       *)
(* mappings of the realtime database through useFirebaseAlerts and         *)
(* useFirebaseEmotions.  A mapping is the sequence of its entries in       *)
(* Object.entries order, which for a database snapshot is key order.  A    *)
(* timestamp is the local time in whole hours, or missing.                 *)
(***************************************************************************)
EXTENDS Integers, Sequences, FiniteSets, TLC

\* ------------------------------------------------------------------ bounds
\* closed-eye ticks fed in one run of consecutive closed-eye ticks
MaxTicks == 9
\* records of a snapshot while both mirror hooks are followed
MaxMirror == 2
\* emotion records of a snapshot while the emotion statistics are followed
MaxEmotions == 4
\* records of a snapshot while both aggregations are followed
MaxAggregate == 2
\* records of a snapshot while the day picker is followed
MaxDay == 2
\* alert records of a snapshot while the day statistics are followed
MaxAlerts == 3
\* drowsiness fetches started while the sampler is followed
MaxFetches == 3
\* timers created while the sampler is followed
MaxTimers == 4
\* emotion fetches in flight at one time
MaxEmotionFetches == 1
\* fetchWithRetry calls followed side by side
MaxCalls == 2
\* alarm sounds created while the sound hook is followed
MaxSounds == 2

\* --------------------------------------------------------------- constants
\* pollingInterval / 1000: milliseconds per second
Scale == 1000
\* earValue < 0.25, in hundredths
EAR_CLOSED_THRESHOLD == 25
\* useDrowsinessAlarm(4, 1000) as shipped by the detection screen
ShippedThreshold == 4
ShippedInterval == 1000

\* a non-finite reading (NaN): every comparison with it is false
NaN == [finite |-> FALSE, v |-> 0]
\* a finite reading of x hundredths
Ear(x) == [finite |-> TRUE, v |-> x]
Null == "null"

\* thresholdSeconds values (times Scale): 0, 0.5, 1 and the shipped 4
Thresholds == {0, 500, 1000, ShippedThreshold * Scale}
\* pollingInterval values in ms
PollingIntervals == {500, ShippedInterval, 1500}
\* data.ear readings: negative, closed, at the limit (open), non-finite
EarValues == {Ear(-10), Ear(20), Ear(25), NaN}
\* err.message of a rejected fetch
ErrorMessages == {"API Error: 500"}

\* Array.from({ length: 24 }): hour slots of a day
HoursPerDay == 24
\* a timestamp string that parses to local day `day`, hour `hour`
Ts(day, hour) == [set |-> TRUE, t |-> day * HoursPerDay + hour]
\* a record without timestamp: new Date(undefined).getTime() is NaN
NoTs == [set |-> FALSE, t |-> 0]
\* AlertData values: type and timestamp (the fields the screen reads)
AlertRecords ==
    {[type |-> "drowsiness", timestamp |-> Ts(1, 10)],
     [type |-> "yawning", timestamp |-> Ts(1, 10)],
     [type |-> "drowsiness", timestamp |-> Ts(2, 9)],
     [type |-> "fatigue", timestamp |-> Ts(1, 23)],
     [type |-> "drowsiness", timestamp |-> NoTs]}
\* the alert records delivered while both mirror hooks are followed
MirrorAlertRecords ==
    {a \in AlertRecords : a.type = "drowsiness"}
\* EmotionData values: emotion and timestamp
MirrorEmotionRecords ==
    {[emotion |-> "happy", timestamp |-> Ts(1, 10)],
     [emotion |-> "sad", timestamp |-> NoTs]}
\* the emotion records the emotion statistics tell apart
EmotionRecords ==
    {[emotion |-> "happy", timestamp |-> Ts(1, 10)],
     [emotion |-> "sad", timestamp |-> Ts(1, 10)],
     [emotion |-> "Happy", timestamp |-> Ts(1, 11)],
     [emotion |-> "sad", timestamp |-> Ts(2, 9)]}
\* the alert records delivered while both aggregations are followed;
\* "fatigue" is none of the two kinds
AggregateAlertRecords ==
    {[type |-> "drowsiness", timestamp |-> Ts(1, 10)],
     [type |-> "yawning", timestamp |-> Ts(1, 11)],
     [type |-> "fatigue", timestamp |-> Ts(1, 11)],
     [type |-> "drowsiness", timestamp |-> NoTs]}
\* the emotion records delivered while both aggregations are followed; "" is
\* a missing emotion, "bored" none of the labels the screen knows
AggregateEmotionRecords ==
    {[emotion |-> "happy", timestamp |-> Ts(1, 10)],
     [emotion |-> "bored", timestamp |-> Ts(1, 11)],
     [emotion |-> "", timestamp |-> Ts(1, 10)],
     [emotion |-> "happy", timestamp |-> NoTs]}
\* the alert records delivered while the day picker is followed
DayAlertRecords ==
    {[type |-> "drowsiness", timestamp |-> Ts(1, 10)],
     [type |-> "drowsiness", timestamp |-> NoTs]}
\* the emotion records delivered while the day picker is followed
DayEmotionRecords ==
    {[emotion |-> "happy", timestamp |-> Ts(2, 9)],
     [emotion |-> "happy", timestamp |-> Ts(3, 8)]}
\* StatsData values: the counters the screen reads
StatsRecords ==
    {[total_detections |-> 3, drowsy_alerts |-> 1, yawn_alerts |-> 1]}
\* error.message of the push channel
StreamErrors == {"permission_denied"}
\* setInterval(fetchDrowsinessData, 1000)
DrowsinessPeriod == 1000
\* useState(5000)
InitialEmotionInterval == 5000
\* the intervals the emotion poller offers (ms)
EmotionIntervals == {2000, InitialEmotionInterval, 7000, 10000}
\* the responses of getCombinedDetection() while the sampler is followed: eyes
\* closed, eyes open
SamplerSamples ==
    {[is_drowsy |-> TRUE, ear |-> Ear(20)], [is_drowsy |-> FALSE, ear |-> Ear(25)]}
\* private retryCount: number = 3
retryCount == 3
\* what one attempt of fetchWithRetry can throw: fetch rejecting, a response
\* that is not ok
AttemptErrors == {"Network request failed", "API Error: 500"}
\* what started a drowsiness fetch
Origins == {"mount", "tick", "refresh", "retry"}

VARIABLES
    thresholdSeconds,       \* hook parameter (times Scale)
    pollingInterval,        \* hook parameter (ms)
    showAlarm,              \* useState(false)
    eyesClosedDuration,     \* useState(0)
    eyesClosedCounterRef,   \* useRef(0)   (times Scale)
    alarmTriggeredRef,      \* useRef(false)
    logged,                 \* the last handler wrote the [DROWSINESS ALARM] line
    detectionData,          \* DetectionScreen useState(null): <<>> or <<sample>>
    loading,                \* DetectionScreen useState(true)
    error,                  \* DetectionScreen useState(null)
    hist,                   \* observer of the calls made so far
    alerts,                 \* useFirebaseAlerts useState({}): entries in key order
    latestAlert,            \* useFirebaseAlerts useState(null): <<>> or <<entry>>
    alertsLoading,          \* useFirebaseAlerts useState(true)
    alertsError,            \* useFirebaseAlerts useState(null)
    emotions,               \* useFirebaseEmotions useState({})
    latestEmotion,          \* useFirebaseEmotions useState(null)
    emotionsLoading,        \* useFirebaseEmotions useState(true)
    emotionsError,          \* useFirebaseEmotions useState(null)
    mirrorEvent,            \* observer of the last push-channel callback
    stats,                  \* useFirebaseStats useState(null): <<>> or <<StatsData>>
    statsLoading,           \* useFirebaseStats useState(true)
    statsError,             \* useFirebaseStats useState(null)
    selectedDayIdx,         \* StatsScreen useState(0)
    navEvent,               \* observer of the last press of a day picker arrow
    mounted,                \* DetectionScreen is mounted
    isEmotionPolling,       \* DetectionScreen useState(true)
    emotionInterval,        \* DetectionScreen useState(5000)
    drowsyTimers,           \* active setInterval timers of the drowsiness effect
    emotionTimers,          \* active setInterval timers of the emotion effect
    timerSeq,               \* timers created so far (the last timer id)
    emotionInflight,        \* fetchEmotionData calls not settled yet
    inflight,               \* fetchDrowsinessData calls not settled yet
    sampler,                \* observer of the drowsiness fetches
    retryCalls,             \* the fetchWithRetry calls, by call
    effectShouldPlay,       \* useAlarmSound: shouldPlay of the last effect run
    soundRef,               \* useAlarmSound useRef(null): NoSound or a sound
    isPlayingRef,           \* useAlarmSound useRef(false)
    loadedSounds,           \* Audio.Sound instances that are loaded
    playingSounds,          \* the loaded instances that are playing
    soundSeq,               \* sounds created so far (the last sound)
    audioOps                \* async functions of the hook suspended at an await

alarmVars == <<showAlarm, eyesClosedDuration, eyesClosedCounterRef, alarmTriggeredRef>>
paramVars == <<thresholdSeconds, pollingInterval>>
screenVars == <<detectionData, loading, error>>
detectVars == <<thresholdSeconds, pollingInterval, showAlarm, eyesClosedDuration,
                eyesClosedCounterRef, alarmTriggeredRef, logged, detectionData,
                loading, error, hist>>
alertsVars == <<alerts, latestAlert, alertsLoading, alertsError>>
emotionsVars == <<emotions, latestEmotion, emotionsLoading, emotionsError>>
mirrorVars == <<alertsVars, emotionsVars, mirrorEvent>>
statsVars == <<stats, statsLoading, statsError>>
navVars == <<selectedDayIdx, navEvent>>
statsScreenVars == <<mirrorVars, statsVars, navVars>>
timerVars == <<mounted, isEmotionPolling, emotionInterval, drowsyTimers,
               emotionTimers, timerSeq, emotionInflight>>
fetchVars == <<inflight, sampler>>
pollVars == <<timerVars, fetchVars>>
soundVars == <<effectShouldPlay, soundRef, isPlayingRef, loadedSounds, playingSounds,
               soundSeq, audioOps>>
vars == <<detectVars, statsScreenVars, pollVars, retryCalls, soundVars>>

\* ------------------------------------------------------- useDrowsinessAlarm

\* earValue < x, false for a NaN reading
Less(earValue, x) == earValue.finite /\ earValue.v < x

\* isDrowsy && earValue < 0.25
EyesClosed(isDrowsy, earValue) == isDrowsy /\ Less(earValue, EAR_CLOSED_THRESHOLD)

\* eyesClosedCounterRef.current += pollingInterval / 1000
Increment(counter) == counter + pollingInterval

\* Math.floor(eyesClosedCounterRef.current), in whole seconds
Floor(counter) == counter \div Scale

\* slip: duration > thresholdSeconds
ReachedThreshold_Strict(duration) == duration * Scale > thresholdSeconds

\* slip: the comparison made one second early
ReachedThreshold_Early(duration) == (duration + 1) * Scale >= thresholdSeconds

\* duration >= thresholdSeconds
ReachedThreshold(duration) == duration * Scale >= thresholdSeconds

\* slip: the !alarmTriggeredRef.current conjunct left out
ShouldTrigger_Rearmed(duration) == ReachedThreshold(duration)

\* duration >= thresholdSeconds && !alarmTriggeredRef.current
ShouldTrigger(duration) == ReachedThreshold(duration) /\ ~alarmTriggeredRef

\* slip: the else-if branch never taken
ShouldUpdate_Never(duration) == FALSE

\* else-if branch: duration >= thresholdSeconds
ShouldUpdate(duration) == ReachedThreshold(duration)

\* the closed-eye branch of checkDrowsiness
ClosedBranch ==
    LET counter == Increment(eyesClosedCounterRef)
        duration == Floor(counter)
    IN  /\ eyesClosedCounterRef' = counter
        /\ IF ShouldTrigger(duration)
           THEN /\ eyesClosedDuration' = duration
                /\ showAlarm' = TRUE
                /\ alarmTriggeredRef' = TRUE
                /\ logged' = TRUE
           ELSE IF ShouldUpdate(duration)
           THEN /\ eyesClosedDuration' = duration
                /\ logged' = FALSE
                /\ UNCHANGED <<showAlarm, alarmTriggeredRef>>
           ELSE /\ logged' = FALSE
                /\ UNCHANGED <<showAlarm, alarmTriggeredRef, eyesClosedDuration>>

\* slip: the else branch forgets eyesClosedCounterRef.current = 0
OpenBranch_KeepCounter ==
    /\ alarmTriggeredRef' = FALSE
    /\ logged' = FALSE
    /\ UNCHANGED <<eyesClosedCounterRef, showAlarm, eyesClosedDuration>>

\* the else branch of checkDrowsiness: eyes are open, reset counter
OpenBranch ==
    /\ eyesClosedCounterRef' = 0
    /\ alarmTriggeredRef' = FALSE
    /\ logged' = FALSE
    /\ UNCHANGED <<showAlarm, eyesClosedDuration>>

checkDrowsiness(isDrowsy, earValue) ==
    IF EyesClosed(isDrowsy, earValue) THEN ClosedBranch ELSE OpenBranch

\* slip: dismissAlarm leaves alarmTriggeredRef set
dismissAlarm_KeepTriggered ==
    /\ showAlarm' = FALSE
    /\ logged' = FALSE
    /\ UNCHANGED <<alarmTriggeredRef, eyesClosedCounterRef, eyesClosedDuration>>

\* slip: dismissAlarm written as a toggle, setShowAlarm(v => !v)
dismissAlarm_Toggle ==
    /\ showAlarm' = ~showAlarm
    /\ alarmTriggeredRef' = FALSE
    /\ logged' = FALSE
    /\ UNCHANGED <<eyesClosedCounterRef, eyesClosedDuration>>

dismissAlarm ==
    /\ showAlarm' = FALSE
    /\ alarmTriggeredRef' = FALSE
    /\ logged' = FALSE
    /\ UNCHANGED <<eyesClosedCounterRef, eyesClosedDuration>>

\* slip: resetAlarm forgets setEyesClosedDuration(0)
resetAlarm_KeepDuration ==
    /\ eyesClosedCounterRef' = 0
    /\ alarmTriggeredRef' = FALSE
    /\ showAlarm' = FALSE
    /\ logged' = FALSE
    /\ UNCHANGED eyesClosedDuration

resetAlarm ==
    /\ eyesClosedCounterRef' = 0
    /\ alarmTriggeredRef' = FALSE
    /\ showAlarm' = FALSE
    /\ eyesClosedDuration' = 0
    /\ logged' = FALSE

\* ----------------------------------------------------------------- observer
\* hist records what was called, never what the hook computed from it:
\*   lastOp      the last call: "init", "closed", "open", "failed", "dismiss", "reset"
\*   runTicks    closed-eye ticks of the current (or just ended) maximal run
\*   runEmits    [DROWSINESS ALARM] lines logged during that run
\*   runEnded    an open-eye tick has ended that run
\*   runCalls    dismiss() or reset() was called during that run
\*   pristine    the calls so far are closed-eye ticks, then at most one open-eye tick
\*   held        dismiss() hit a triggered, showing alarm and only closed-eye or
\*               failed ticks followed
\*   refired     the run before the current one had logged the alarm
\*   twice       the last two calls were both dismiss()
\*   prevShow, prevDuration   what the hook exposed before the last call
HistInit ==
    [lastOp |-> "init", runTicks |-> 0, runEmits |-> 0, runEnded |-> FALSE,
     runCalls |-> FALSE, pristine |-> TRUE, held |-> FALSE, refired |-> FALSE,
     twice |-> FALSE, prevShow |-> FALSE, prevDuration |-> 0]

Before(h) ==
    [h EXCEPT !.prevShow = showAlarm, !.prevDuration = eyesClosedDuration,
              !.twice = FALSE]

\* the emitted flag is logged', read by the caller after the hook has run
ObserveClosed(emitted) ==
    LET h == Before(hist)
        e == IF emitted THEN 1 ELSE 0
    IN  IF hist.runEnded
        THEN [h EXCEPT !.lastOp = "closed", !.runTicks = 1, !.runEmits = e,
                       !.runEnded = FALSE, !.runCalls = FALSE, !.pristine = FALSE,
                       !.refired = hist.runEmits > 0]
        ELSE [h EXCEPT !.lastOp = "closed", !.runTicks = @ + 1, !.runEmits = @ + e,
                       !.pristine = @ /\ hist.lastOp \in {"init", "closed"}]

ObserveOpen ==
    LET h == Before(hist)
    IN  IF hist.runEnded
        THEN [h EXCEPT !.lastOp = "open", !.runTicks = 0, !.runEmits = 0,
                       !.runCalls = FALSE, !.pristine = FALSE, !.held = FALSE,
                       !.refired = hist.runEmits > 0]
        ELSE [h EXCEPT !.lastOp = "open", !.runEnded = TRUE, !.held = FALSE,
                       !.pristine = @ /\ hist.lastOp \in {"init", "closed"}]

ObserveFailed ==
    [Before(hist) EXCEPT !.lastOp = "failed", !.pristine = FALSE]

ObserveDismiss ==
    [Before(hist) EXCEPT !.lastOp = "dismiss", !.pristine = FALSE,
                         !.runCalls = TRUE, !.twice = (hist.lastOp = "dismiss"),
                         !.held = @ \/ (showAlarm /\ alarmTriggeredRef)]

ObserveReset ==
    [Before(hist) EXCEPT !.lastOp = "reset", !.pristine = FALSE,
                         !.runCalls = TRUE, !.held = FALSE]

\* ---------------------------------------------------------- DetectionScreen

\* fetchDrowsinessData, the fetch resolving with a sample
FetchOk(isDrowsy, earValue) ==
    /\ error' = Null
    /\ detectionData' = <<[is_drowsy |-> isDrowsy, ear |-> earValue]>>
    /\ loading' = FALSE
    /\ checkDrowsiness(isDrowsy, earValue)
    /\ UNCHANGED paramVars

\* one sampler tick whose sample reads as closed eyes
ClosedTick ==
    /\ hist.runEnded \/ hist.runTicks < MaxTicks
    /\ \E isDrowsy \in BOOLEAN, earValue \in EarValues :
          /\ EyesClosed(isDrowsy, earValue)
          /\ FetchOk(isDrowsy, earValue)
    /\ hist' = ObserveClosed(logged')
    /\ UNCHANGED <<statsScreenVars, pollVars, retryCalls, soundVars>>

\* one sampler tick whose sample reads as open eyes
OpenTick ==
    /\ \E isDrowsy \in BOOLEAN, earValue \in EarValues :
          /\ ~EyesClosed(isDrowsy, earValue)
          /\ FetchOk(isDrowsy, earValue)
    /\ hist' = ObserveOpen
    /\ UNCHANGED <<statsScreenVars, pollVars, retryCalls, soundVars>>

\* slip: the catch block also clears the episode
FailedTick_ClearsEpisode ==
    /\ \E msg \in ErrorMessages : error' = msg
    /\ loading' = FALSE
    /\ logged' = FALSE
    /\ hist' = ObserveFailed
    /\ eyesClosedCounterRef' = 0
    /\ alarmTriggeredRef' = FALSE
    /\ UNCHANGED <<detectionData, showAlarm, eyesClosedDuration, paramVars>>
    /\ UNCHANGED <<statsScreenVars, pollVars, retryCalls, soundVars>>

\* fetchDrowsinessData, the fetch rejecting: the catch block
FailedTick ==
    /\ \E msg \in ErrorMessages : error' = msg
    /\ loading' = FALSE
    /\ logged' = FALSE
    /\ hist' = ObserveFailed
    /\ UNCHANGED <<detectionData, alarmVars, paramVars>>
    /\ UNCHANGED <<statsScreenVars, pollVars, retryCalls, soundVars>>

\* AlarmModal onDismiss
Dismiss ==
    /\ dismissAlarm
    /\ hist' = ObserveDismiss
    /\ UNCHANGED <<screenVars, paramVars, statsScreenVars, pollVars, retryCalls, soundVars>>

\* resetAlarm() called by a recovery path
Reset ==
    /\ resetAlarm
    /\ hist' = ObserveReset
    /\ UNCHANGED <<screenVars, paramVars, statsScreenVars, pollVars, retryCalls, soundVars>>


\* ------------------------------------------------- services/firebase (mirror)

\* the ids 1..n taken in increasing order
RECURSIVE KeyOrder(_)
KeyOrder(K) ==
    IF K = {} THEN <<>>
    ELSE LET k == CHOOSE x \in K : \A y \in K : x <= y
         IN  <<k>> \o KeyOrder(K \ {k})

\* the mappings whose key set is one of KeySets, entries in key order
Mappings(KeySets, Records) ==
    {[i \in 1..Cardinality(K) |-> [id |-> KeyOrder(K)[i], data |-> f[KeyOrder(K)[i]]]] :
        <<K, f>> \in UNION {{<<K, f>> : f \in [K -> Records]} : K \in KeySets}}

\* snapshot.val(): <<>> for null (nothing stored), else <<mapping>>
Snapshots(KeySets, Records) == {<<>>} \cup {<<m>> : m \in Mappings(KeySets, Records)}

\* any keys out of 1..n: records come and go
AnyKeys(n) == SUBSET (1..n) \ {{}}

\* the keys 1..k for k up to n: the mapping only grows
FirstKeys(n) == {1..k : k \in 1..n}

\* slip: the new snapshot merged into the held mapping, old keys kept
OrEmpty_Merge(val, held) ==
    IF val = <<>> THEN held
    ELSE LET m == val[1]
             kept == SelectSeq(held, LAMBDA e : \A i \in DOMAIN m : m[i].id # e.id)
         IN  kept \o m

\* callback(data || {}); the held mapping is not consulted
OrEmpty(val, held) == IF val = <<>> THEN <<>> ELSE val[1]

\* e placed behind every entry that does not sort after it (stable)
RECURSIVE InsertDesc(_, _)
InsertDesc(e, sorted) ==
    IF sorted = <<>> THEN <<e>>
    ELSE IF e.data.timestamp.t > Head(sorted).data.timestamp.t
         THEN <<e>> \o sorted
         ELSE <<Head(sorted)>> \o InsertDesc(e, Tail(sorted))

\* list.sort((a, b) => time(b) - time(a)) when every time is a number
RECURSIVE SortDesc(_)
SortDesc(list) ==
    IF list = <<>> THEN <<>>
    ELSE InsertDesc(list[Len(list)], SortDesc(SubSeq(list, 1, Len(list) - 1)))

\* the entries list.sort((a, b) => time(b) - time(a)) may leave at index 0.
\* With a missing timestamp the comparator yields NaN, which sort takes as 0:
\* if the dated entries do not all share one time the comparator is
\* inconsistent and the order is implementation-defined; otherwise every pair
\* compares equal and the sort, being stable, keeps the list as it is.
SortedFirst(list) ==
    LET dated == {i \in DOMAIN list : list[i].data.timestamp.set}
    IN  IF dated = DOMAIN list THEN {SortDesc(list)[1]}
        ELSE IF \A i, j \in dated :
                   list[i].data.timestamp.t = list[j].data.timestamp.t
        THEN {list[1]}
        ELSE {list[i] : i \in DOMAIN list}

\* getLatestAlert / getLatestEmotion: <<>> for null, else <<alertsList[0]>>
GetLatest(mapping) ==
    IF mapping = <<>> THEN {<<>>}
    ELSE {<<e>> : e \in SortedFirst(mapping)}

getLatestAlert(mapping) == GetLatest(mapping)

getLatestEmotion(mapping) == GetLatest(mapping)

\* ------------------------------------------------------- hooks/use-firebase

MirrorEventInit == [kind |-> "init", val |-> <<>>, shrunk |-> FALSE]

\* the callback `kind` was handed `val`; shrunk: a held key is not in val
ObserveSnapshot(kind, val, held) ==
    [kind |-> kind, val |-> val,
     shrunk |-> \E i \in DOMAIN held :
                   \A j \in DOMAIN OrEmpty(val, <<>>) : OrEmpty(val, <<>>)[j].id # held[i].id]

ObserveStreamError(kind) == [kind |-> kind, val |-> <<>>, shrunk |-> FALSE]

\* useFirebaseAlerts, the data callback
OnAlerts(val) ==
    /\ alerts' = OrEmpty(val, alerts)
    /\ latestAlert' \in getLatestAlert(alerts')
    /\ alertsLoading' = FALSE
    /\ mirrorEvent' = ObserveSnapshot("alerts", val, alerts)
    /\ UNCHANGED <<alertsError, emotionsVars, statsVars, navVars, detectVars, pollVars, retryCalls, soundVars>>

\* slip: the error callback blanks the view
AlertsFailed_Blanks ==
    /\ \E msg \in StreamErrors : alertsError' = msg
    /\ alertsLoading' = FALSE
    /\ alerts' = <<>>
    /\ latestAlert' = <<>>
    /\ mirrorEvent' = ObserveStreamError("alertsError")
    /\ UNCHANGED <<emotionsVars, statsVars, navVars, detectVars, pollVars, retryCalls, soundVars>>

\* useFirebaseAlerts, the error callback
AlertsFailed ==
    /\ \E msg \in StreamErrors : alertsError' = msg
    /\ alertsLoading' = FALSE
    /\ mirrorEvent' = ObserveStreamError("alertsError")
    /\ UNCHANGED <<alerts, latestAlert, emotionsVars, statsVars, navVars, detectVars, pollVars, retryCalls, soundVars>>

\* useFirebaseEmotions, the data callback
OnEmotions(val) ==
    /\ emotions' = OrEmpty(val, emotions)
    /\ latestEmotion' \in getLatestEmotion(emotions')
    /\ emotionsLoading' = FALSE
    /\ mirrorEvent' = ObserveSnapshot("emotions", val, emotions)
    /\ UNCHANGED <<emotionsError, alertsVars, statsVars, navVars, detectVars, pollVars, retryCalls, soundVars>>

\* useFirebaseEmotions, the error callback
EmotionsFailed ==
    /\ \E msg \in StreamErrors : emotionsError' = msg
    /\ emotionsLoading' = FALSE
    /\ mirrorEvent' = ObserveStreamError("emotionsError")
    /\ UNCHANGED <<emotions, latestEmotion, alertsVars, statsVars, navVars, detectVars, pollVars, retryCalls, soundVars>>

\* useFirebaseStats, the data callback: callback(data), null kept as null
OnStats(val) ==
    /\ stats' = val
    /\ statsLoading' = FALSE
    /\ UNCHANGED <<statsError, mirrorVars, navVars, detectVars, pollVars, retryCalls, soundVars>>

\* useFirebaseStats, the error callback
StatsFailed ==
    /\ \E msg \in StreamErrors : statsError' = msg
    /\ statsLoading' = FALSE
    /\ UNCHANGED <<stats, mirrorVars, navVars, detectVars, pollVars, retryCalls, soundVars>>

\* no arrow pressed yet
NavEventInit == [kind |-> "none", atEnd |-> FALSE, moved |-> FALSE]

\* the handle of a setInterval call
Timer(id, period) == [id |-> id, period |-> period]

\* a fetchDrowsinessData call awaiting getCombinedDetection()
Fetch(seq, origin) == [seq |-> seq, origin |-> origin]

\* the mount effect has started the first fetch; no response has been applied
SamplerInit ==
    [started |-> 1, ticks |-> 0, applied |-> 0, reordered |-> FALSE,
     callsBy |-> {}]

\* soundRef.current === null
NoSound == 0

\* the calls of fetchWithRetry that are followed
CallIds == 1..MaxCalls

\* a call that has not been made yet
IdleCall == [phase |-> "idle", attempt |-> 0, errors |-> <<>>, outcome |-> Null]

\* the screen after its mount effects: both timers run, both first fetches are out
Init ==
    /\ thresholdSeconds \in Thresholds
    /\ pollingInterval \in PollingIntervals
    /\ showAlarm = FALSE
    /\ eyesClosedDuration = 0
    /\ eyesClosedCounterRef = 0
    /\ alarmTriggeredRef = FALSE
    /\ logged = FALSE
    /\ detectionData = <<>>
    /\ loading = TRUE
    /\ error = Null
    /\ hist = HistInit
    /\ alerts = <<>>
    /\ latestAlert = <<>>
    /\ alertsLoading = TRUE
    /\ alertsError = Null
    /\ emotions = <<>>
    /\ latestEmotion = <<>>
    /\ emotionsLoading = TRUE
    /\ emotionsError = Null
    /\ mirrorEvent = MirrorEventInit
    /\ stats = <<>>
    /\ statsLoading = TRUE
    /\ statsError = Null
    /\ selectedDayIdx = 0
    /\ navEvent = NavEventInit
    /\ mounted = TRUE
    /\ isEmotionPolling = TRUE
    /\ emotionInterval = InitialEmotionInterval
    /\ drowsyTimers = {Timer(1, DrowsinessPeriod)}
    /\ emotionTimers = {Timer(2, InitialEmotionInterval)}
    /\ timerSeq = 2
    /\ emotionInflight = 1
    /\ inflight = {Fetch(1, "mount")}
    /\ sampler = SamplerInit
    /\ retryCalls = [c \in CallIds |-> IdleCall]
    /\ effectShouldPlay = FALSE
    /\ soundRef = NoSound
    /\ isPlayingRef = FALSE
    /\ loadedSounds = {}
    /\ playingSounds = {}
    /\ soundSeq = 0
    /\ audioOps = {}

Next ==
    \/ ClosedTick
    \/ OpenTick
    \/ FailedTick
    \/ Dismiss
    \/ Reset

Spec == Init /\ [][Next]_vars


\* ------------------------------------------------------ app/(tabs)/stats.tsx

\* formatDateKey(new Date(timestamp)): the local calendar day
formatDateKey(timestamp) == timestamp.t \div HoursPerDay

\* new Date(timestamp).getHours()
getHours(timestamp) == timestamp.t % HoursPerDay

\* the day keys a screen may ask for; day 3 holds no record
DayKeys == {1, 2, 3}

EmptyDayStats ==
    [total |-> 0, drowsy |-> 0, yawn |-> 0,
     hourly |-> [h \in 0..(HoursPerDay - 1) |-> [drowsy |-> 0, yawn |-> 0, total |-> 0]]]

\* slip: the day filter is left out
OnDay_AnyDay(a, dayKey) == a.timestamp.set

\* if (!a.timestamp) return; if (formatDateKey(d) !== dayKey) return;
OnDay(a, dayKey) == a.timestamp.set /\ formatDateKey(a.timestamp) = dayKey

\* slip: the hour slot's total is bumped inside the two kind branches only
CountAlert_HourlyByKind(acc, a, dayKey) ==
    IF ~OnDay(a, dayKey) THEN acc
    ELSE LET h == getHours(a.timestamp)
             isDrowsy == a.type = "drowsiness"
             isYawn == a.type = "yawning"
             slot == acc.hourly[h]
         IN  [total |-> acc.total + 1,
              drowsy |-> acc.drowsy + (IF isDrowsy THEN 1 ELSE 0),
              yawn |-> acc.yawn + (IF ~isDrowsy /\ isYawn THEN 1 ELSE 0),
              hourly |-> [acc.hourly EXCEPT ![h] =
                  [total |-> slot.total + (IF isDrowsy \/ isYawn THEN 1 ELSE 0),
                   drowsy |-> slot.drowsy + (IF isDrowsy THEN 1 ELSE 0),
                   yawn |-> slot.yawn + (IF ~isDrowsy /\ isYawn THEN 1 ELSE 0)]]]

\* slip: the yawn counters are bumped for every counted record
CountAlert_YawnAlways(acc, a, dayKey) ==
    IF ~OnDay(a, dayKey) THEN acc
    ELSE LET h == getHours(a.timestamp)
             isDrowsy == a.type = "drowsiness"
             slot == acc.hourly[h]
         IN  [total |-> acc.total + 1,
              drowsy |-> acc.drowsy + (IF isDrowsy THEN 1 ELSE 0),
              yawn |-> acc.yawn + 1,
              hourly |-> [acc.hourly EXCEPT ![h] =
                  [total |-> slot.total + 1,
                   drowsy |-> slot.drowsy + (IF isDrowsy THEN 1 ELSE 0),
                   yawn |-> slot.yawn + 1]]]

\* the body of the forEach of computeDayStats for one record
CountAlert(acc, a, dayKey) ==
    IF ~OnDay(a, dayKey) THEN acc
    ELSE LET h == getHours(a.timestamp)
             isDrowsy == a.type = "drowsiness"
             isYawn == a.type = "yawning"
             slot == acc.hourly[h]
         IN  [total |-> acc.total + 1,
              drowsy |-> acc.drowsy + (IF isDrowsy THEN 1 ELSE 0),
              yawn |-> acc.yawn + (IF ~isDrowsy /\ isYawn THEN 1 ELSE 0),
              hourly |-> [acc.hourly EXCEPT ![h] =
                  [total |-> slot.total + 1,
                   drowsy |-> slot.drowsy + (IF isDrowsy THEN 1 ELSE 0),
                   yawn |-> slot.yawn + (IF ~isDrowsy /\ isYawn THEN 1 ELSE 0)]]]

RECURSIVE CountAlerts(_, _, _)
CountAlerts(acc, list, dayKey) ==
    IF list = <<>> THEN acc
    ELSE CountAlerts(CountAlert(acc, Head(list).data, dayKey), Tail(list), dayKey)

\* computeDayStats(alerts, dayKey)
computeDayStats(mapping, dayKey) == CountAlerts(EmptyDayStats, mapping, dayKey)

\* slip: the label is used as it is written
toLowerCase_AsWritten(em) == em

\* e.emotion.toLowerCase()
toLowerCase(em) ==
    CASE em = "Happy" -> "happy"
      [] em = "HAPPY" -> "happy"
      [] em = "Sad" -> "sad"
      [] OTHER -> em

\* counts[em] || 0, counts being the entries [em, c] in insertion order
CountOf(counts, em) ==
    IF \E i \in DOMAIN counts : counts[i].em = em
    THEN (CHOOSE e \in {counts[i] : i \in DOMAIN counts} : e.em = em).c
    ELSE 0

\* slip: a category met again is dropped from the counts
Bump_DropsRepeated(counts, em) ==
    IF \E i \in DOMAIN counts : counts[i].em = em
    THEN SelectSeq(counts, LAMBDA e : e.em # em)
    ELSE Append(counts, [em |-> em, c |-> 1])

\* counts[em] = (counts[em] || 0) + 1: a new key goes to the end
Bump(counts, em) ==
    IF \E i \in DOMAIN counts : counts[i].em = em
    THEN [i \in DOMAIN counts |->
             IF counts[i].em = em THEN [em |-> em, c |-> counts[i].c + 1] ELSE counts[i]]
    ELSE Append(counts, [em |-> em, c |-> 1])

EmptyEmotionDayStats ==
    [total |-> 0, counts |-> <<>>,
     hourly |-> [h \in 0..(HoursPerDay - 1) |-> [counts |-> <<>>, total |-> 0]]]

\* if (!e.timestamp || !e.emotion) return; if (formatDateKey(d) !== dayKey) return;
EmotionOnDay(e, dayKey) ==
    /\ e.timestamp.set
    /\ e.emotion # ""
    /\ formatDateKey(e.timestamp) = dayKey

\* the body of the forEach of computeEmotionDayStats for one record
CountEmotion(acc, e, dayKey) ==
    IF ~EmotionOnDay(e, dayKey) THEN acc
    ELSE LET em == toLowerCase(e.emotion)
             h == getHours(e.timestamp)
             slot == acc.hourly[h]
         IN  [total |-> acc.total + 1,
              counts |-> Bump(acc.counts, em),
              hourly |-> [acc.hourly EXCEPT ![h] =
                  [counts |-> Bump(slot.counts, em), total |-> slot.total + 1]]]

RECURSIVE CountEmotions(_, _, _)
CountEmotions(acc, list, dayKey) ==
    IF list = <<>> THEN acc
    ELSE CountEmotions(CountEmotion(acc, Head(list).data, dayKey), Tail(list), dayKey)

\* slip: a later category with the same count takes over
Exceeds_OrEqual(c, maxCount) == c >= maxCount

\* if (c > maxCount)
Exceeds(c, maxCount) == c > maxCount

\* Object.entries(counts).forEach: best is [dominant, maxCount] so far
RECURSIVE FindDominant(_, _)
FindDominant(best, counts) ==
    IF counts = <<>> THEN best
    ELSE FindDominant(IF Exceeds(Head(counts).c, best.maxCount)
                      THEN [dominant |-> Head(counts).em, maxCount |-> Head(counts).c]
                      ELSE best,
                      Tail(counts))

\* computeEmotionDayStats(emotions, dayKey)
computeEmotionDayStats(mapping, dayKey) ==
    LET counted == CountEmotions(EmptyEmotionDayStats, mapping, dayKey)
    IN  [total |-> counted.total, counts |-> counted.counts, hourly |-> counted.hourly,
         dominant |-> FindDominant([dominant |-> "neutral", maxCount |-> 0],
                                   counted.counts).dominant]

\* formatDateKey(new Date()): the day the screen is looked at; day 1 is
\* yesterday and day 3 tomorrow
todayKey == 2

\* the days of the dated records of a mapping
DaysOf(mapping) ==
    {formatDateKey(mapping[i].data.timestamp) :
        i \in {j \in DOMAIN mapping : mapping[j].data.timestamp.set}}

\* Array.from(daySet).sort().reverse()
RECURSIVE SortReverse(_)
SortReverse(daySet) ==
    IF daySet = {} THEN <<>>
    ELSE LET newest == CHOOSE d \in daySet : \A x \in daySet : x <= d
         IN  <<newest>> \o SortReverse(daySet \ {newest})

\* sorted.includes(todayKey)
Includes(sorted, key) == \E i \in DOMAIN sorted : sorted[i] = key

\* slip: today is not added
getAvailableDays_NoToday(alertMapping, emotionMapping) ==
    SortReverse(DaysOf(alertMapping) \cup DaysOf(emotionMapping))

\* getAvailableDays(alerts, emotions)
getAvailableDays(alertMapping, emotionMapping) ==
    LET sorted == SortReverse(DaysOf(alertMapping) \cup DaysOf(emotionMapping))
    IN  IF ~Includes(sorted, todayKey) THEN <<todayKey>> \o sorted ELSE sorted

\* rates as fractions num / den
Rate(num, den) == [num |-> num, den |-> den]

\* slip: an empty day is given the rate 0, as the drowsy and yawn rates are
daySafeRate_EmptyIsZero(dayStats) ==
    IF dayStats.total > 0
    THEN Rate((dayStats.total - dayStats.drowsy - dayStats.yawn) * 100, dayStats.total)
    ELSE Rate(0, 1)

\* dayStats.total > 0 ? (total - drowsy - yawn) / total * 100 : 100
daySafeRate(dayStats) ==
    IF dayStats.total > 0
    THEN Rate((dayStats.total - dayStats.drowsy - dayStats.yawn) * 100, dayStats.total)
    ELSE Rate(100, 1)

\* ---------------------------------------------------------------- StatsScreen

\* useMemo(() => getAvailableDays(alerts, emotions), [alerts, emotions])
availableDays == getAvailableDays(alerts, emotions)

\* availableDays[selectedDayIdx] || formatDateKey(new Date())
selectedDay ==
    IF selectedDayIdx < Len(availableDays) THEN availableDays[selectedDayIdx + 1]
    ELSE todayKey

canGoPrev == selectedDayIdx < Len(availableDays) - 1

canGoNext == selectedDayIdx > 0

\* statsLoading || alertsLoading || emotionsLoading: the loading card is shown
\* in place of the day picker
ScreenLoading == statsLoading \/ alertsLoading \/ emotionsLoading

\* slip: the older arrow wraps around to the newest day
PressPrev_Wraps ==
    /\ ~ScreenLoading
    /\ selectedDayIdx' = IF canGoPrev THEN selectedDayIdx + 1 ELSE 0
    /\ UNCHANGED <<mirrorVars, statsVars, detectVars, pollVars, retryCalls, soundVars>>
    /\ navEvent' = [kind |-> "prev", atEnd |-> ~canGoPrev,
                    moved |-> selectedDayIdx' # selectedDayIdx \/ selectedDay' # selectedDay]

\* the left arrow: canGoPrev && setSelectedDayIdx(selectedDayIdx + 1)
PressPrev ==
    /\ ~ScreenLoading
    /\ selectedDayIdx' = IF canGoPrev THEN selectedDayIdx + 1 ELSE selectedDayIdx
    /\ UNCHANGED <<mirrorVars, statsVars, detectVars, pollVars, retryCalls, soundVars>>
    /\ navEvent' = [kind |-> "prev", atEnd |-> ~canGoPrev,
                    moved |-> selectedDayIdx' # selectedDayIdx \/ selectedDay' # selectedDay]

\* the right arrow: canGoNext && setSelectedDayIdx(selectedDayIdx - 1)
PressNext ==
    /\ ~ScreenLoading
    /\ selectedDayIdx' = IF canGoNext THEN selectedDayIdx - 1 ELSE selectedDayIdx
    /\ UNCHANGED <<mirrorVars, statsVars, detectVars, pollVars, retryCalls, soundVars>>
    /\ navEvent' = [kind |-> "next", atEnd |-> ~canGoNext,
                    moved |-> selectedDayIdx' # selectedDayIdx \/ selectedDay' # selectedDay]

\* the two mirror hooks of the statistics screen, the detection screen idle
MirrorInit ==
    /\ Init
    /\ thresholdSeconds = ShippedThreshold * Scale
    /\ pollingInterval = ShippedInterval

MirrorAlertSnapshots == Snapshots(AnyKeys(MaxMirror), MirrorAlertRecords)

MirrorAlertsSnapshot == \E val \in MirrorAlertSnapshots : OnAlerts(val)

MirrorEmotionSnapshots == Snapshots(AnyKeys(MaxMirror), MirrorEmotionRecords)

MirrorEmotionsSnapshot == \E val \in MirrorEmotionSnapshots : OnEmotions(val)

MirrorNext ==
    \/ MirrorAlertsSnapshot
    \/ AlertsFailed
    \/ MirrorEmotionsSnapshot
    \/ EmotionsFailed

SpecMirror == MirrorInit /\ [][MirrorNext]_vars

\* the alerts hook alone, with the records the day statistics tell apart
StatsAlertSnapshots == Snapshots(FirstKeys(MaxAlerts), AlertRecords)

StatsAlertsSnapshot == \E val \in StatsAlertSnapshots : OnAlerts(val)

StatsNext == StatsAlertsSnapshot

SpecStats == MirrorInit /\ [][StatsNext]_vars

\* the emotions hook alone, with the records the emotion statistics tell apart
EmotionStatsSnapshots == Snapshots(FirstKeys(MaxEmotions), EmotionRecords)

EmotionStatsSnapshot == \E val \in EmotionStatsSnapshots : OnEmotions(val)

EmotionStatsNext == EmotionStatsSnapshot

SpecEmotionStats == MirrorInit /\ [][EmotionStatsNext]_vars

\* the alerts and the emotions hook, with well-formed and malformed records
AggregateAlertSnapshots == Snapshots(FirstKeys(MaxAggregate), AggregateAlertRecords)

AggregateEmotionSnapshots == Snapshots(FirstKeys(MaxAggregate), AggregateEmotionRecords)

AggregateAlertsSnapshot == \E val \in AggregateAlertSnapshots : OnAlerts(val)

AggregateEmotionsSnapshot == \E val \in AggregateEmotionSnapshots : OnEmotions(val)

AggregateNext ==
    \/ AggregateAlertsSnapshot
    \/ AggregateEmotionsSnapshot

SpecAggregate == MirrorInit /\ [][AggregateNext]_vars

\* the statistics screen with its three hooks and the day picker
DayAlertSnapshots == Snapshots(FirstKeys(MaxDay), DayAlertRecords)

DayEmotionSnapshots == Snapshots(FirstKeys(MaxDay), DayEmotionRecords)

DayStatsSnapshots == {<<>>} \cup {<<st>> : st \in StatsRecords}

DayAlertsSnapshot == \E val \in DayAlertSnapshots : OnAlerts(val)

DayEmotionsSnapshot == \E val \in DayEmotionSnapshots : OnEmotions(val)

DayStatsSnapshot == \E val \in DayStatsSnapshots : OnStats(val)

DayNext ==
    \/ DayAlertsSnapshot
    \/ DayEmotionsSnapshot
    \/ DayStatsSnapshot
    \/ PressPrev
    \/ PressNext

SpecDay == MirrorInit /\ [][DayNext]_vars

\* ------------------------------------------------- DetectionScreen (polling)

\* the loading card replaces the whole screen until the first fetch settles
ScreenShown == mounted /\ ~(loading /\ detectionData = <<>>)

\* fetchDrowsinessData up to its await: setError(null), the request goes out
StartFetch(origin) ==
    /\ sampler.started < MaxFetches
    /\ error' = Null
    /\ inflight' = inflight \cup {Fetch(sampler.started + 1, origin)}
    /\ sampler' = [sampler EXCEPT !.started = @ + 1,
                                  !.ticks = IF origin = "tick" THEN @ + 1 ELSE @]
    /\ UNCHANGED <<detectionData, loading, alarmVars, paramVars, logged, hist>>

\* a tick of the drowsiness timer
DrowsyTick ==
    /\ drowsyTimers # {}
    /\ StartFetch("tick")
    /\ UNCHANGED <<timerVars, statsScreenVars, retryCalls, soundVars>>

\* fetchEmotionData up to its await
StartEmotionFetch ==
    /\ emotionInflight < MaxEmotionFetches
    /\ emotionInflight' = emotionInflight + 1

\* onRefresh: both fetches are started
PullRefresh ==
    /\ ScreenShown
    /\ StartFetch("refresh")
    /\ StartEmotionFetch
    /\ UNCHANGED <<mounted, isEmotionPolling, emotionInterval, drowsyTimers,
                   emotionTimers, timerSeq, statsScreenVars, retryCalls, soundVars>>

\* the Retry button of the error card
PressRetry ==
    /\ ScreenShown
    /\ error # Null
    /\ StartFetch("retry")
    /\ UNCHANGED <<timerVars, statsScreenVars, retryCalls, soundVars>>

\* fetchDrowsinessData after its await: the response is shown and evaluated
ResponseArrives ==
    \E f \in inflight, data \in SamplerSamples :
        /\ inflight' = inflight \ {f}
        /\ detectionData' = <<data>>
        /\ loading' = FALSE
        /\ checkDrowsiness(data.is_drowsy, data.ear)
        /\ hist' = IF EyesClosed(data.is_drowsy, data.ear)
                   THEN ObserveClosed(logged') ELSE ObserveOpen
        /\ sampler' = [sampler EXCEPT
                          !.applied = IF f.seq > @ THEN f.seq ELSE @,
                          !.reordered = @ \/ f.seq < sampler.applied,
                          !.callsBy = @ \cup {f.origin}]
        /\ UNCHANGED <<error, paramVars, timerVars, statsScreenVars, retryCalls, soundVars>>

\* fetchDrowsinessData, the request rejecting: the catch block
FetchFails ==
    \E f \in inflight, msg \in ErrorMessages :
        /\ inflight' = inflight \ {f}
        /\ error' = msg
        /\ loading' = FALSE
        /\ logged' = FALSE
        /\ hist' = ObserveFailed
        /\ UNCHANGED <<detectionData, alarmVars, paramVars, sampler, timerVars,
                       statsScreenVars, retryCalls, soundVars>>

\* slip: the effect has no cleanup, the previous timer keeps running
EmotionEffect_NoCleanup(polling, interval) ==
    IF polling
    THEN /\ timerSeq < MaxTimers
         /\ StartEmotionFetch
         /\ emotionTimers' = emotionTimers \cup {Timer(timerSeq + 1, interval)}
         /\ timerSeq' = timerSeq + 1
    ELSE /\ emotionTimers' = emotionTimers
         /\ UNCHANGED <<timerSeq, emotionInflight>>

\* the cleanup of the emotion effect followed by the effect itself
EmotionEffect(polling, interval) ==
    IF polling
    THEN /\ timerSeq < MaxTimers
         /\ StartEmotionFetch
         /\ emotionTimers' = {Timer(timerSeq + 1, interval)}
         /\ timerSeq' = timerSeq + 1
    ELSE /\ emotionTimers' = {}
         /\ UNCHANGED <<timerSeq, emotionInflight>>

\* slip: one flag pauses both pollers
ToggleEmotionPolling_PausesBoth ==
    /\ ScreenShown
    /\ isEmotionPolling' = ~isEmotionPolling
    /\ EmotionEffect(~isEmotionPolling, emotionInterval)
    /\ drowsyTimers' = IF isEmotionPolling THEN {} ELSE drowsyTimers
    /\ UNCHANGED <<mounted, emotionInterval, fetchVars, detectVars, statsScreenVars, retryCalls, soundVars>>

\* the pause / resume button: setIsEmotionPolling(!isEmotionPolling)
ToggleEmotionPolling ==
    /\ ScreenShown
    /\ isEmotionPolling' = ~isEmotionPolling
    /\ EmotionEffect(~isEmotionPolling, emotionInterval)
    /\ UNCHANGED <<mounted, emotionInterval, drowsyTimers, fetchVars, detectVars,
                   statsScreenVars, retryCalls, soundVars>>

\* an interval button: setEmotionInterval(interval)
SetEmotionInterval ==
    /\ ScreenShown
    /\ \E interval \in EmotionIntervals \ {emotionInterval} :
          /\ emotionInterval' = interval
          /\ EmotionEffect(isEmotionPolling, interval)
    /\ UNCHANGED <<mounted, isEmotionPolling, drowsyTimers, fetchVars, detectVars,
                   statsScreenVars, retryCalls, soundVars>>

\* the Refresh button of the emotion card, and a tick of the emotion timer
RefreshEmotion ==
    /\ ScreenShown
    /\ StartEmotionFetch
    /\ UNCHANGED <<mounted, isEmotionPolling, emotionInterval, drowsyTimers,
                   emotionTimers, timerSeq, fetchVars, detectVars, statsScreenVars, retryCalls, soundVars>>

EmotionTick ==
    /\ emotionTimers # {}
    /\ StartEmotionFetch
    /\ UNCHANGED <<mounted, isEmotionPolling, emotionInterval, drowsyTimers,
                   emotionTimers, timerSeq, fetchVars, detectVars, statsScreenVars, retryCalls, soundVars>>

\* fetchEmotionData after its await, either way
EmotionSettles ==
    /\ emotionInflight > 0
    /\ emotionInflight' = emotionInflight - 1
    /\ UNCHANGED <<mounted, isEmotionPolling, emotionInterval, drowsyTimers,
                   emotionTimers, timerSeq, fetchVars, detectVars, statsScreenVars, retryCalls, soundVars>>

\* the screen unmounts: both effect cleanups run; what was in flight belongs to
\* the instance that is gone
Unmount ==
    /\ mounted
    /\ mounted' = FALSE
    /\ drowsyTimers' = {}
    /\ emotionTimers' = {}
    /\ inflight' = {}
    /\ emotionInflight' = 0
    /\ UNCHANGED <<isEmotionPolling, emotionInterval, timerSeq, sampler, detectVars,
                   statsScreenVars, retryCalls, soundVars>>

\* the screen mounts again: fresh state, both effects run
Mount ==
    /\ ~mounted
    /\ timerSeq + 2 <= MaxTimers
    /\ sampler.started < MaxFetches
    /\ mounted' = TRUE
    /\ isEmotionPolling' = TRUE
    /\ emotionInterval' = InitialEmotionInterval
    /\ drowsyTimers' = {Timer(timerSeq + 1, DrowsinessPeriod)}
    /\ emotionTimers' = {Timer(timerSeq + 2, InitialEmotionInterval)}
    /\ timerSeq' = timerSeq + 2
    /\ emotionInflight' = 1
    /\ inflight' = {Fetch(sampler.started + 1, "mount")}
    /\ sampler' = [sampler EXCEPT !.started = @ + 1]
    /\ showAlarm' = FALSE
    /\ eyesClosedDuration' = 0
    /\ eyesClosedCounterRef' = 0
    /\ alarmTriggeredRef' = FALSE
    /\ logged' = FALSE
    /\ detectionData' = <<>>
    /\ loading' = TRUE
    /\ error' = Null
    /\ hist' = HistInit
    /\ UNCHANGED <<paramVars, statsScreenVars, retryCalls, soundVars>>

\* ------------------------------------------------- services/api (fetchWithRetry)

\* slip: one attempt too many
MayRetry_OneMore(attempt) == attempt <= retryCount

\* attempt < this.retryCount
MayRetry(attempt) == attempt < retryCount

\* fetchWithRetry(endpoint, options): the first attempt goes out
CallFetchWithRetry(c) ==
    /\ retryCalls[c].phase = "idle"
    /\ retryCalls' = [retryCalls EXCEPT ![c].phase = "fetching", ![c].attempt = 1]
    /\ UNCHANGED <<detectVars, statsScreenVars, pollVars, soundVars>>

\* the try block runs through: the data is returned
AttemptSucceeds(c) ==
    /\ retryCalls[c].phase = "fetching"
    /\ retryCalls' = [retryCalls EXCEPT ![c].phase = "returned", ![c].outcome = "data"]
    /\ UNCHANGED <<detectVars, statsScreenVars, pollVars, soundVars>>

\* the catch block: wait and try again, or throw the error that was caught
AttemptFails(c) ==
    /\ retryCalls[c].phase = "fetching"
    /\ \E err \in AttemptErrors :
          retryCalls' =
             IF MayRetry(retryCalls[c].attempt)
             THEN [retryCalls EXCEPT ![c].phase = "waiting",
                                     ![c].errors = Append(@, err)]
             ELSE [retryCalls EXCEPT ![c].phase = "rejected",
                                     ![c].errors = Append(@, err),
                                     ![c].outcome = err]
    /\ UNCHANGED <<detectVars, statsScreenVars, pollVars, soundVars>>

\* the retryDelay timer fires: fetchWithRetry(endpoint, options, attempt + 1)
DelayElapses(c) ==
    /\ retryCalls[c].phase = "waiting"
    /\ retryCalls' = [retryCalls EXCEPT ![c].phase = "fetching", ![c].attempt = @ + 1]
    /\ UNCHANGED <<detectVars, statsScreenVars, pollVars, soundVars>>

RetryNext ==
    \E c \in CallIds :
        \/ CallFetchWithRetry(c)
        \/ AttemptSucceeds(c)
        \/ AttemptFails(c)
        \/ DelayElapses(c)

SpecRetry == MirrorInit /\ [][RetryNext]_vars

\* every attempt settles and every retry delay elapses
SpecRetryFair ==
    /\ SpecRetry
    /\ \A c \in CallIds :
          /\ WF_vars(AttemptSucceeds(c) \/ AttemptFails(c))
          /\ WF_vars(DelayElapses(c))

\* ------------------------------------------------------- hooks/use-alarm-sound

\* an async function of the hook (manageSound starting or halting the sound,
\* cleanup, the press handler awaiting stop) suspended at the await of
\* stopAsync, unloadAsync or createAsync on sound snd
Op(fn, pc, snd) == [fn |-> fn, pc |-> pc, snd |-> snd]

\* cleanup() up to its first await
CleanupOps ==
    IF soundRef # NoSound THEN {Op("cleanup", "stop", soundRef)} ELSE {}

\* manageSound() up to its first await
ManageOps(shouldPlay) ==
    IF shouldPlay /\ ~isPlayingRef
    THEN {IF soundRef # NoSound THEN Op("start", "stop", soundRef)
                                ELSE Op("start", "create", NoSound)}
    ELSE IF ~shouldPlay /\ isPlayingRef /\ soundRef # NoSound
         THEN {Op("halt", "stop", soundRef)}
         ELSE {}

\* the effect on [shouldPlay], after a render that changed visible: the cleanup
\* of the previous run, then manageSound()
SoundEffect ==
    /\ showAlarm # effectShouldPlay
    /\ (showAlarm /\ ~isPlayingRef) =>
          soundSeq + Cardinality({o \in audioOps : o.fn = "start"}) < MaxSounds
    /\ effectShouldPlay' = showAlarm
    /\ audioOps' = audioOps \cup CleanupOps \cup ManageOps(showAlarm)
    /\ isPlayingRef' = (isPlayingRef /\ (showAlarm \/ soundRef # NoSound))
    /\ UNCHANGED <<soundRef, loadedSounds, playingSounds, soundSeq>>
    /\ UNCHANGED <<detectVars, statsScreenVars, pollVars, retryCalls>>

\* an awaited audio call settles and the function that awaited it runs on to
\* its next await or to its end; the press handler ends with onDismiss()
AudioSettles ==
    \E o \in audioOps :
        LET created == soundSeq + 1
            \* stopAsync() on a sound that is not loaded rejects
            rejected == o.pc = "stop" /\ o.snd \notin loadedSounds
            \* soundRef.current.unloadAsync() with soundRef.current null
            noRef == o.pc = "stop" /\ ~rejected /\ soundRef = NoSound
            next == IF o.pc = "stop" /\ ~rejected /\ ~noRef
                    THEN {Op(o.fn, "unload", soundRef)}
                    ELSE IF o.pc = "unload" /\ o.fn = "start"
                         THEN {Op("start", "create", NoSound)}
                         ELSE {}
        IN  /\ audioOps' = (audioOps \ {o}) \cup next
            /\ playingSounds' = IF o.pc = "create" THEN playingSounds \cup {created}
                                ELSE playingSounds \ {o.snd}
            /\ loadedSounds' = IF o.pc = "create" THEN loadedSounds \cup {created}
                               ELSE IF o.pc = "unload" THEN loadedSounds \ {o.snd}
                               ELSE loadedSounds
            /\ soundSeq' = IF o.pc = "create" THEN created ELSE soundSeq
            /\ soundRef' = IF o.pc = "create" THEN created
                           ELSE IF o.pc = "unload" /\ o.fn # "start" THEN NoSound
                           ELSE soundRef
            /\ isPlayingRef' = IF o.pc = "create" THEN TRUE
                               ELSE IF o.pc = "unload" /\ o.fn \in {"halt", "press"}
                                    THEN FALSE
                                    ELSE isPlayingRef
            /\ IF next = {} /\ o.fn = "press"
               THEN dismissAlarm /\ hist' = ObserveDismiss
               ELSE UNCHANGED <<alarmVars, logged, hist>>
            /\ UNCHANGED <<effectShouldPlay, screenVars, paramVars, statsScreenVars,
                           pollVars, retryCalls>>

\* the I'm Awake button: await stopSound(); onDismiss()
PressAwake ==
    /\ showAlarm
    /\ effectShouldPlay
    /\ IF soundRef # NoSound /\ isPlayingRef
       THEN /\ audioOps' = audioOps \cup {Op("press", "stop", soundRef)}
            /\ UNCHANGED <<alarmVars, logged, hist>>
       ELSE /\ dismissAlarm
            /\ hist' = ObserveDismiss
            /\ UNCHANGED audioOps
    /\ UNCHANGED <<effectShouldPlay, soundRef, isPlayingRef, loadedSounds,
                   playingSounds, soundSeq>>
    /\ UNCHANGED <<screenVars, paramVars, statsScreenVars, pollVars, retryCalls>>

SoundNext ==
    \/ ClosedTick
    \/ SoundEffect
    \/ AudioSettles
    \/ PressAwake

SpecSound == MirrorInit /\ [][SoundNext]_vars

SamplerNext ==
    \/ DrowsyTick
    \/ PullRefresh
    \/ PressRetry
    \/ ResponseArrives
    \/ FetchFails
    \/ ToggleEmotionPolling
    \/ SetEmotionInterval
    \/ RefreshEmotion
    \/ EmotionTick
    \/ EmotionSettles
    \/ Unmount
    \/ Mount

SpecSampler == MirrorInit /\ [][SamplerNext]_vars


TypeOK ==
    /\ thresholdSeconds \in Thresholds
    /\ pollingInterval \in PollingIntervals
    /\ showAlarm \in BOOLEAN
    /\ alarmTriggeredRef \in BOOLEAN
    /\ logged \in BOOLEAN
    /\ eyesClosedDuration \in Nat
    /\ eyesClosedCounterRef \in Nat
    /\ loading \in BOOLEAN
    /\ hist.runTicks \in 0..MaxTicks

\* ------------------------------------------------------------------ claims

\* duration accumulated over the current run of closed-eye ticks (times Scale)
RunAccumulated == hist.runTicks * pollingInterval

\* the whole seconds of it, as Math.floor exposes them
RunSeconds == RunAccumulated \div Scale

\* the run has reached the threshold, as the hook compares it
RunReached == hist.runTicks > 0 /\ RunSeconds * Scale >= thresholdSeconds

\* ceil(a / b) for a >= 0, b > 0
CeilDiv(a, b) == (a + b - 1) \div b

WholeThreshold == thresholdSeconds % Scale = 0

C2_NoRefireAfterDismiss == hist.held => ~showAlarm

FiringTicks ==
    IF thresholdSeconds = 0 THEN 1 ELSE CeilDiv(thresholdSeconds, pollingInterval)

C4_OpenTickZeroesDuration ==
    (hist.lastOp = "open" /\ hist.runTicks > 0) => eyesClosedDuration = 0

\* C5: showAlarm goes from false to true only on a closed-eye tick after
\* which the whole seconds accumulated over the current run of consecutive
\* closed-eye ticks are >= thresholdSeconds (as shipped: never after fewer
\* than 4 consecutive closed-eye seconds).
C5_NeverBeforeThreshold ==
    (~hist.prevShow /\ showAlarm) =>
        /\ hist.lastOp = "closed"
        /\ RunSeconds * Scale >= thresholdSeconds
        /\ (thresholdSeconds = ShippedThreshold * Scale) =>
              RunAccumulated >= 4 * Scale

\* the alarm coming up again in a run during which it was dismissed
C5_Witness ==
    /\ ~hist.prevShow
    /\ showAlarm
    /\ hist.runCalls
    /\ hist.runTicks > 1
    /\ thresholdSeconds > 0

\* C6: one open-eye tick resets the accumulator to 0 and triggered to false
\* at once; the accumulator never holds more than the current run of
\* closed-eye ticks, so a new run has to accumulate the full threshold from
\* zero before the alarm fires again.
C6_OpenTickCancels ==
    /\ hist.runEnded => (eyesClosedCounterRef = 0 /\ ~alarmTriggeredRef)
    /\ ~hist.runEnded => eyesClosedCounterRef <= RunAccumulated
    /\ logged => (hist.lastOp = "closed" /\ RunSeconds * Scale >= thresholdSeconds)

\* the alarm firing again in the run that follows a run in which it fired
C6_Witness ==
    /\ logged
    /\ hist.refired
    /\ ~hist.runCalls
    /\ thresholdSeconds > 0
    /\ hist.runTicks = FiringTicks

\* C7 (as claimed): an open-eye tick takes the machine to a state equal to
\* the initial one: active false, triggered false, accumulator 0, duration 0.
C7_OpenTickDisarms ==
    hist.lastOp = "open" =>
        /\ showAlarm = FALSE
        /\ alarmTriggeredRef = FALSE
        /\ eyesClosedCounterRef = 0
        /\ eyesClosedDuration = 0

\* C8: under any interleaving of ticks, dismiss() and reset(), triggered
\* implies active.
C8_TriggeredImpliesActive == alarmTriggeredRef => showAlarm

\* triggered again after a dismiss() in the same run
C8_Witness ==
    /\ alarmTriggeredRef
    /\ showAlarm
    /\ hist.held
    /\ hist.lastOp = "closed"

\* C9 (as claimed): while active stays true, the exposed
\* eyesClosedDuration never decreases from one step to the next.
C9_DurationMonotoneWhileActive ==
    (hist.prevShow /\ showAlarm) => eyesClosedDuration >= hist.prevDuration

\* C10 (as claimed): whenever active goes from true to false, the exposed
\* eyesClosedDuration is 0 in the resulting state.
C10_ZeroWhenDeactivated ==
    (hist.prevShow /\ ~showAlarm) => eyesClosedDuration = 0

\* C11 (as claimed): after every closed-eye tick the exposed
\* eyesClosedDuration is the integer floor of the accumulator, also below
\* the threshold.
C11_ExposedIsFloor ==
    hist.lastOp = "closed" => eyesClosedDuration = eyesClosedCounterRef \div Scale

\* C11 (amended): after every closed-eye tick on which the floor of the
\* accumulator is >= thresholdSeconds the exposed eyesClosedDuration equals
\* that floor, fractional progress carried over between ticks; on a closed
\* tick below the threshold the exposed value is left as it was.
C11_ExposedIsFloorOnceReached ==
    hist.lastOp = "closed" =>
        IF (eyesClosedCounterRef \div Scale) * Scale >= thresholdSeconds
        THEN eyesClosedDuration = eyesClosedCounterRef \div Scale
        ELSE eyesClosedDuration = hist.prevDuration

\* 1.5 s ticks: three of them expose 4, the half second carried over
C11_Witness ==
    /\ hist.lastOp = "closed"
    /\ ~logged
    /\ pollingInterval = 1500
    /\ eyesClosedCounterRef = 4500
    /\ eyesClosedDuration = 4

\* C12: with thresholdSeconds = 0 the alarm fires on the very first
\* closed-eye tick from the Disarmed state, for every tick period.
C12_ZeroThresholdFiresAtOnce ==
    (thresholdSeconds = 0 /\ hist.lastOp = "closed" /\ hist.runTicks = 1
        /\ ~hist.prevShow) =>
        (logged /\ showAlarm /\ alarmTriggeredRef)

\* the half-second tick: the floor of the accumulator is still 0
C12_Witness ==
    /\ thresholdSeconds = 0
    /\ pollingInterval = 500
    /\ hist.lastOp = "closed"
    /\ hist.pristine
    /\ hist.runTicks = 1
    /\ logged
    /\ eyesClosedDuration = 0

\* the sample handed to checkDrowsiness by the last tick
LastSample == detectionData[1]

\* C13 (as claimed): a tick with isDrowsy = true and a negative or
\* non-finite earValue is treated as not closed: it leaves the accumulator
\* at 0 and fires nothing.
C13_FaultyEarNotClosed ==
    (hist.lastOp \in {"closed", "open"} /\ LastSample.is_drowsy
        /\ (~LastSample.ear.finite \/ LastSample.ear.v < 0)) =>
        (eyesClosedCounterRef = 0 /\ ~logged)

\* C14: reset() in any reachable state returns the machine to Disarmed:
\* accumulator 0, triggered false, active false, exposed duration 0.
C14_ResetDisarms ==
    hist.lastOp = "reset" =>
        /\ eyesClosedCounterRef = 0
        /\ alarmTriggeredRef = FALSE
        /\ showAlarm = FALSE
        /\ eyesClosedDuration = 0

\* reset() of a dismissed alarm: hidden, its duration still exposed
C14_Witness ==
    /\ hist.lastOp = "reset"
    /\ ~hist.prevShow
    /\ hist.prevDuration > 0
    /\ hist.held = FALSE
    /\ hist.runCalls

\* C15: a second dismiss() in a row leaves the machine in exactly the state
\* the first one left it in.
C15_DismissIdempotent ==
    [][(hist.lastOp = "dismiss" /\ hist'.lastOp = "dismiss") =>
          (alarmVars' = alarmVars /\ logged' = logged)]_vars

\* two dismiss() calls in a row on an alarm that had fired
C15_Witness ==
    /\ hist.lastOp = "dismiss"
    /\ hist.twice
    /\ hist.held
    /\ eyesClosedCounterRef > 0

Delivered == IF mirrorEvent.val = <<>> THEN <<>> ELSE mirrorEvent.val[1]

\* C17: after a snapshot the held mapping is exactly the delivered one (null
\* taken as empty), for alerts and for emotions: no key that the snapshot
\* lacks survives.
C17_SnapshotReplaces ==
    /\ mirrorEvent.kind = "alerts" => alerts = Delivered
    /\ mirrorEvent.kind = "emotions" => emotions = Delivered

\* a snapshot that dropped a held key and brought other records
C17_Witness ==
    /\ mirrorEvent.kind = "alerts"
    /\ mirrorEvent.shrunk
    /\ alerts # <<>>
    /\ alerts = Delivered

\* latest is null exactly for the empty mapping, else an entry of the mapping
\* that no dated entry of the mapping is newer than
IsNewest(latest, mapping) ==
    /\ (latest = <<>>) <=> (mapping = <<>>)
    /\ latest # <<>> =>
          /\ \E i \in DOMAIN mapping : mapping[i] = latest[1]
          /\ \A i \in DOMAIN mapping :
                mapping[i].data.timestamp.set =>
                   /\ latest[1].data.timestamp.set
                   /\ latest[1].data.timestamp.t >= mapping[i].data.timestamp.t

\* C18: after every snapshot latestAlert / latestEmotion is null exactly when
\* the mapping is empty and otherwise a member of the current mapping whose
\* time is at least that of every other record.
C18_LatestIsNewest ==
    /\ IsNewest(latestAlert, alerts)
    /\ IsNewest(latestEmotion, emotions)

\* C19: a step in which the push channel reports an error leaves the mapping
\* and the most recent record as they were, with the error set and loading
\* false.
C19_ErrorKeepsMirror ==
    [][/\ mirrorEvent'.kind = "alertsError" =>
             /\ alerts' = alerts
             /\ latestAlert' = latestAlert
             /\ alertsError' \in StreamErrors
             /\ alertsLoading' = FALSE
       /\ mirrorEvent'.kind = "emotionsError" =>
             /\ emotions' = emotions
             /\ latestEmotion' = latestEmotion
             /\ emotionsError' \in StreamErrors
             /\ emotionsLoading' = FALSE]_vars

\* an error reported while records are held
C19_Witness ==
    /\ mirrorEvent.kind = "alertsError"
    /\ alerts # <<>>
    /\ latestAlert # <<>>
    /\ alertsError \in StreamErrors
    /\ ~alertsLoading

\* ------------------------------------------------------------ day statistics

\* the records of the mapping dated on day dayKey
DayRecords(mapping, dayKey) ==
    {i \in DOMAIN mapping :
        /\ mapping[i].data.timestamp.set
        /\ mapping[i].data.timestamp.t \div HoursPerDay = dayKey}

\* those of them of the given kind
DayRecordsOfKind(mapping, dayKey, kind) ==
    {i \in DayRecords(mapping, dayKey) : mapping[i].data.type = kind}

\* those of them in the given hour
DayRecordsInHour(mapping, dayKey, h) ==
    {i \in DayRecords(mapping, dayKey) : mapping[i].data.timestamp.t % HoursPerDay = h}

\* C20: for the held alert mapping and every day key, total is the number of
\* records dated on that day, drowsy and yawn the number of those of each
\* kind, and every hour slot counts the records of that day and hour, so that
\* records of other days are in no counter.
C20_DayStatsCount ==
    \A d \in DayKeys :
        LET st == computeDayStats(alerts, d)
        IN  /\ st.total = Cardinality(DayRecords(alerts, d))
            /\ st.drowsy = Cardinality(DayRecordsOfKind(alerts, d, "drowsiness"))
            /\ st.yawn = Cardinality(DayRecordsOfKind(alerts, d, "yawning"))
            /\ \A h \in 0..(HoursPerDay - 1) :
                  /\ st.hourly[h].total = Cardinality(DayRecordsInHour(alerts, d, h))
                  /\ st.hourly[h].drowsy =
                        Cardinality(DayRecordsInHour(alerts, d, h)
                                    \cap DayRecordsOfKind(alerts, d, "drowsiness"))
                  /\ st.hourly[h].yawn =
                        Cardinality(DayRecordsInHour(alerts, d, h)
                                    \cap DayRecordsOfKind(alerts, d, "yawning"))

\* Scenario B: drowsiness and yawning on day 1 at 10, drowsiness on day 2 at 9;
\* day 1 has total 2, drowsy 1, yawn 1, hour slot 10 total 2
C20_Witness ==
    /\ Len(alerts) = 3
    /\ alerts[1].data = [type |-> "drowsiness", timestamp |-> Ts(1, 10)]
    /\ alerts[2].data = [type |-> "yawning", timestamp |-> Ts(1, 10)]
    /\ alerts[3].data = [type |-> "drowsiness", timestamp |-> Ts(2, 9)]
    /\ computeDayStats(alerts, 1).total = 2
    /\ computeDayStats(alerts, 1).drowsy = 1
    /\ computeDayStats(alerts, 1).yawn = 1
    /\ computeDayStats(alerts, 1).hourly[10].total = 2

\* C21: for the held alert mapping, records of unrecognized kind included, and
\* every day key, the drowsy and yawn counts together do not exceed the total.
C21_KindsWithinTotal ==
    \A d \in DayKeys :
        computeDayStats(alerts, d).drowsy + computeDayStats(alerts, d).yawn
            <= computeDayStats(alerts, d).total

\* a day with a drowsiness, a yawning and an unrecognized record: 2 < 3
C21_Witness ==
    /\ \E i \in DOMAIN alerts : alerts[i].data.type = "fatigue"
    /\ computeDayStats(alerts, 1).drowsy = 1
    /\ computeDayStats(alerts, 1).yawn = 1
    /\ computeDayStats(alerts, 1).total = 3

\* the sum of the totals of the hour slots 0..h
RECURSIVE SumTotals(_, _)
SumTotals(hourly, h) ==
    IF h < 0 THEN 0 ELSE hourly[h].total + SumTotals(hourly, h - 1)

\* C22: for the held mappings and every day key, the 24 hourly totals of
\* computeDayStats add up to its day total, and those of
\* computeEmotionDayStats to its day total.
C22_HourlySumsToTotal ==
    \A d \in DayKeys :
        /\ SumTotals(computeDayStats(alerts, d).hourly, HoursPerDay - 1)
              = computeDayStats(alerts, d).total
        /\ SumTotals(computeEmotionDayStats(emotions, d).hourly, HoursPerDay - 1)
              = computeEmotionDayStats(emotions, d).total

\* alerts and emotions of one day spread over two hours
C22_Witness ==
    /\ computeDayStats(alerts, 1).total = 2
    /\ computeDayStats(alerts, 1).hourly[10].total = 1
    /\ computeDayStats(alerts, 1).hourly[11].total = 1
    /\ computeEmotionDayStats(emotions, 1).total = 2
    /\ computeEmotionDayStats(emotions, 1).hourly[10].total = 1
    /\ computeEmotionDayStats(emotions, 1).hourly[11].total = 1

\* the mapping without its k-th entry
Without(mapping, k) ==
    SubSeq(mapping, 1, k - 1) \o SubSeq(mapping, k + 1, Len(mapping))

\* the categories a count may be kept for
Categories == {"happy", "sad", "bored", "neutral"}

\* every count of a is at most the corresponding count of b
AlertStatsLeq(a, b) ==
    /\ a.total <= b.total
    /\ a.drowsy <= b.drowsy
    /\ a.yawn <= b.yawn
    /\ \A h \in 0..(HoursPerDay - 1) :
          /\ a.hourly[h].total <= b.hourly[h].total
          /\ a.hourly[h].drowsy <= b.hourly[h].drowsy
          /\ a.hourly[h].yawn <= b.hourly[h].yawn

EmotionStatsLeq(a, b) ==
    /\ a.total <= b.total
    /\ \A em \in Categories : CountOf(a.counts, em) <= CountOf(b.counts, em)
    /\ \A h \in 0..(HoursPerDay - 1) :
          /\ a.hourly[h].total <= b.hourly[h].total
          /\ \A em \in Categories :
                CountOf(a.hourly[h].counts, em) <= CountOf(b.hourly[h].counts, em)

\* C23: taking any one record out of the held mapping leaves no count of
\* computeDayStats or computeEmotionDayStats, for any day key, larger than
\* it was.
C23_DeletionMonotone ==
    \A d \in DayKeys :
        /\ \A k \in DOMAIN alerts :
              AlertStatsLeq(computeDayStats(Without(alerts, k), d),
                            computeDayStats(alerts, d))
        /\ \A k \in DOMAIN emotions :
              EmotionStatsLeq(computeEmotionDayStats(Without(emotions, k), d),
                              computeEmotionDayStats(emotions, d))

\* two records of one category on a day: taking one out lowers the count
C23_Witness ==
    /\ Len(emotions) = 2
    /\ CountOf(computeEmotionDayStats(emotions, 1).counts, "happy") = 2
    /\ CountOf(computeEmotionDayStats(Without(emotions, 1), 1).counts, "happy") = 1
    /\ Len(alerts) = 2
    /\ computeDayStats(alerts, 1).drowsy = 2
    /\ computeDayStats(Without(alerts, 2), 1).drowsy = 1

\* C24: for the held alert mapping and every day key the safe rate is
\* (total - drowsy - yawn) / total * 100 when total > 0 and 100 when total = 0.
C24_SafeRate ==
    \A d \in DayKeys :
        LET st == computeDayStats(alerts, d)
            r == daySafeRate(st)
        IN  /\ r.den > 0
            /\ st.total > 0 =>
                  r.num * st.total = (st.total - st.drowsy - st.yawn) * 100 * r.den
            /\ st.total = 0 => r.num = 100 * r.den

\* a day without records next to a day with one safe record in three
C24_Witness ==
    /\ alerts # <<>>
    /\ computeDayStats(alerts, 3).total = 0
    /\ daySafeRate(computeDayStats(alerts, 3)) = Rate(100, 1)
    /\ computeDayStats(alerts, 1).total = 3
    /\ daySafeRate(computeDayStats(alerts, 1)) = Rate(100, 3)

\* the entries of the mapping that computeEmotionDayStats counts for the day
\* under the category em
CountedAs(mapping, dayKey, em) ==
    {i \in DOMAIN mapping :
        /\ mapping[i].data.timestamp.set
        /\ mapping[i].data.emotion # ""
        /\ mapping[i].data.timestamp.t \div HoursPerDay = dayKey
        /\ toLowerCase(mapping[i].data.emotion) = em}

\* the position at which the category is first met
FirstMet(mapping, dayKey, em) ==
    CHOOSE i \in CountedAs(mapping, dayKey, em) :
        \A j \in CountedAs(mapping, dayKey, em) : i <= j

\* C25: for the held emotion mapping and every day key, no category of the
\* day has more records than the dominant one, and among the categories with
\* as many records the dominant one is the one met first.
C25_DominantIsFirstMax ==
    \A d \in DayKeys :
        LET dom == computeEmotionDayStats(emotions, d).dominant
        IN  \A em \in Categories :
               /\ Cardinality(CountedAs(emotions, d, em))
                     <= Cardinality(CountedAs(emotions, d, dom))
               /\ (/\ CountedAs(emotions, d, em) # {}
                   /\ Cardinality(CountedAs(emotions, d, em))
                         = Cardinality(CountedAs(emotions, d, dom)))
                  => FirstMet(emotions, d, dom) <= FirstMet(emotions, d, em)

\* Scenario D: happy and sad at 2 each, happy met first
C25_Witness ==
    /\ Len(emotions) = 4
    /\ toLowerCase(emotions[1].data.emotion) = "happy"
    /\ Cardinality(CountedAs(emotions, 1, "happy")) = 2
    /\ Cardinality(CountedAs(emotions, 1, "sad")) = 2
    /\ computeEmotionDayStats(emotions, 1).dominant = "happy"

\* the kinds of AlertData
AlertKinds == {"drowsiness", "yawning"}

\* the labels the screen has a colour for
EmotionLabels == {"happy", "sad", "neutral", "angry", "surprise", "fear", "disgust"}

\* the mapping without its malformed records
WellFormedAlerts(mapping) ==
    SelectSeq(mapping, LAMBDA e : e.data.timestamp.set /\ e.data.type \in AlertKinds)

WellFormedEmotions(mapping) ==
    SelectSeq(mapping, LAMBDA e : /\ e.data.timestamp.set
                                  /\ toLowerCase(e.data.emotion) \in EmotionLabels)

\* C26: a record without timestamp or of unrecognized kind / emotion is in no
\* counter: the statistics of the held mapping are those of its well-formed
\* records.
C26_MalformedExcluded ==
    \A d \in DayKeys :
        /\ computeDayStats(alerts, d) = computeDayStats(WellFormedAlerts(alerts), d)
        /\ computeEmotionDayStats(emotions, d)
              = computeEmotionDayStats(WellFormedEmotions(emotions), d)

\* ------------------------------------------------------------- day picker

\* C27: availableDays holds distinct day keys, newest first.
C27_DaysNewestFirst ==
    \A i, j \in DOMAIN availableDays :
        i < j => availableDays[i] > availableDays[j]

\* the days on which a record of either mapping is dated
RecordedDays ==
    {d \in DayKeys :
        \/ \E i \in DOMAIN alerts :
              /\ alerts[i].data.timestamp.set
              /\ alerts[i].data.timestamp.t \div HoursPerDay = d
        \/ \E i \in DOMAIN emotions :
              /\ emotions[i].data.timestamp.set
              /\ emotions[i].data.timestamp.t \div HoursPerDay = d}

\* C28: the days of availableDays are exactly the days with a record in
\* either mapping, and today.
C28_DaysAreRecordedPlusToday ==
    {availableDays[i] : i \in DOMAIN availableDays} = RecordedDays \cup {todayKey}

\* both mappings delivered empty: today alone; reached again after days with
\* records were shown
C28_Witness ==
    /\ ~ScreenLoading
    /\ alerts = <<>>
    /\ emotions = <<>>
    /\ mirrorEvent.shrunk
    /\ availableDays = <<todayKey>>

\* C29: the selected index is within the available days.
C29_IndexInRange ==
    /\ 0 <= selectedDayIdx
    /\ selectedDayIdx <= Len(availableDays) - 1

\* C30: an arrow pressed at its end of the list leaves the selected index
\* and the selected day as they were.
C30_PressAtEndIsNoOp ==
    navEvent.atEnd => ~navEvent.moved

\* the older arrow pressed with the oldest of several days selected
C30_Witness ==
    /\ navEvent.kind = "prev"
    /\ navEvent.atEnd
    /\ ~navEvent.moved
    /\ selectedDayIdx = Len(availableDays) - 1
    /\ selectedDayIdx >= 1

\* ------------------------------------------------------- later mirror claims

\* the dated entries that no dated entry is newer than
TiedAtMax(mapping) ==
    {i \in DOMAIN mapping :
        /\ mapping[i].data.timestamp.set
        /\ \A j \in DOMAIN mapping :
              mapping[j].data.timestamp.set =>
                 mapping[j].data.timestamp.t <= mapping[i].data.timestamp.t}

\* with two or more entries tied at the newest time, latest is the tied entry
\* of smallest id (entries are held in id order)
TieBrokenById(latest, mapping) ==
    Cardinality(TiedAtMax(mapping)) >= 2 =>
        latest = <<mapping[CHOOSE i \in TiedAtMax(mapping) :
                              \A j \in TiedAtMax(mapping) : i <= j]>>

\* C34: when two or more records share the newest time, latestAlert /
\* latestEmotion is the one of them with the smallest id, whatever else the
\* mapping holds.
C34_TieBrokenById ==
    /\ TieBrokenById(latestAlert, alerts)
    /\ TieBrokenById(latestEmotion, emotions)

Folded(em) ==
    IF em \in {"happy", "Happy", "HAPPY"} THEN "happy"
    ELSE IF em \in {"sad", "Sad", "SAD"} THEN "sad"
    ELSE em

\* the entries counted for the day whose label is em up to letter case
SameLabel(mapping, dayKey, em) ==
    {i \in DOMAIN mapping :
        /\ mapping[i].data.timestamp.set
        /\ mapping[i].data.emotion # ""
        /\ mapping[i].data.timestamp.t \div HoursPerDay = dayKey
        /\ Folded(mapping[i].data.emotion) = em}

\* C35: for the held emotion mapping and every day key, the records whose
\* labels differ only in letter case are counted under one category, the
\* lower-case one, in the day counts and in the hourly counts, and the
\* dominant emotion is chosen among these categories.
C35_LabelsFoldCase ==
    \A d \in DayKeys :
        LET st == computeEmotionDayStats(emotions, d)
        IN  /\ \A i \in DOMAIN st.counts :
                  /\ Folded(st.counts[i].em) = st.counts[i].em
                  /\ st.counts[i].c = Cardinality(SameLabel(emotions, d, st.counts[i].em))
            /\ \A em \in {"happy", "sad"} :
                  /\ CountOf(st.counts, em) = Cardinality(SameLabel(emotions, d, em))
                  /\ \A h \in 0..(HoursPerDay - 1) :
                        CountOf(st.hourly[h].counts, em) =
                           Cardinality({i \in SameLabel(emotions, d, em) :
                                           emotions[i].data.timestamp.t % HoursPerDay = h})
            /\ Folded(st.dominant) = st.dominant
            /\ \A em \in {"happy", "sad"} :
                  Cardinality(SameLabel(emotions, d, em))
                     <= Cardinality(SameLabel(emotions, d, st.dominant))

\* sad met first, then Happy and happy: one category of 2, which is dominant
C35_Witness ==
    /\ Len(emotions) = 3
    /\ emotions[1].data.emotion = "sad"
    /\ emotions[2].data.emotion = "Happy"
    /\ emotions[3].data.emotion = "happy"
    /\ computeEmotionDayStats(emotions, 1).counts
          = <<[em |-> "sad", c |-> 1], [em |-> "happy", c |-> 2]>>
    /\ CountOf(computeEmotionDayStats(emotions, 1).hourly[11].counts, "happy") = 1
    /\ computeEmotionDayStats(emotions, 1).dominant = "happy"

\* C36: a step that changes availableDays and keeps the selected day among
\* them leaves the selected day as it was.
C36_SelectionFollowsDay ==
    [][(availableDays' # availableDays /\ Includes(availableDays', selectedDay))
          => selectedDay' = selectedDay]_vars

\* ------------------------------------------------------------------ sampler

\* C31: while the screen is mounted exactly one drowsiness timer runs, of
\* period 1 s, and no step between mount and unmount (pausing or resuming the
\* emotion poller, changing its interval, either refresh) replaces or stops it.
C31_SamplerNeverPaused ==
    /\ [](mounted => \E t \in drowsyTimers :
                        /\ drowsyTimers = {t}
                        /\ t.period = DrowsinessPeriod)
    /\ [][(mounted /\ mounted') => drowsyTimers' = drowsyTimers]_vars

\* the emotion poller is paused on another interval and the timer of the mount
\* is still the drowsiness timer, and it has ticked
C31_Witness ==
    /\ mounted
    /\ ~isEmotionPolling
    /\ emotionInterval # InitialEmotionInterval
    /\ drowsyTimers = {Timer(1, DrowsinessPeriod)}
    /\ sampler.ticks > 0

\* C32: checkDrowsiness is invoked only for fetches that a timer tick (or the
\* mount effect, tick zero) started: never for a fetch started by
\* pull-to-refresh or by the Retry button.
C32_OneCallPerTick == sampler.callsBy \subseteq {"tick", "mount"}

\* C33: at most one emotion timer is active, its period is the chosen
\* interval, none is active while polling is paused or the screen is
\* unmounted (no drowsiness timer either), and a step that changes the
\* interval or the paused flag leaves none of the previous timers active.
C33_TimersCancelled ==
    /\ [](/\ Cardinality(emotionTimers) <= 1
          /\ \A t \in emotionTimers : t.period = emotionInterval
          /\ (~isEmotionPolling \/ ~mounted) => emotionTimers = {}
          /\ ~mounted => drowsyTimers = {}
          /\ \A t \in drowsyTimers \cup emotionTimers : t.id <= timerSeq)
    /\ [][(emotionInterval' # emotionInterval \/ isEmotionPolling' # isEmotionPolling
            \/ mounted' # mounted)
          => emotionTimers' \cap emotionTimers = {}]_vars

\* the interval was changed while polling: one timer, a new one, of the new period
C33_Witness ==
    /\ mounted
    /\ isEmotionPolling
    /\ emotionInterval # InitialEmotionInterval
    /\ \E t \in emotionTimers :
          /\ emotionTimers = {t}
          /\ t.id > 2
          /\ t.period = emotionInterval

\* C37: no response is applied after the response of a fetch that was started
\* later.
C37_AppliedInRequestOrder == ~sampler.reordered

\* ---------------------------------------------------------- fetchWithRetry

\* a call is over
Settled(c) == retryCalls[c].phase \in {"returned", "rejected"}

\* C40: a call makes at most retryCount = 3 attempts; it returns at its first
\* successful attempt (every attempt before it failed and none follows it); it
\* rejects only after the third failed attempt, with the error of that
\* attempt; and a call that was made is eventually over.
C40_RetryBounded ==
    /\ [](\A c \in CallIds :
             LET call == retryCalls[c]
             IN  /\ call.attempt <= retryCount
                 /\ call.phase = "returned" =>
                       /\ call.outcome = "data"
                       /\ Len(call.errors) = call.attempt - 1
                 /\ call.phase = "rejected" =>
                       /\ call.attempt = retryCount
                       /\ Len(call.errors) = retryCount
                       /\ call.outcome = call.errors[retryCount])
    /\ [][\A c \in CallIds : Settled(c) => retryCalls'[c] = retryCalls[c]]_vars
    /\ \A c \in CallIds : (retryCalls[c].phase # "idle") ~> Settled(c)

\* one call rejected with its third error, which is not its first, and one
\* call returned at its second attempt
C40_Witness ==
    \E c, d \in CallIds :
        /\ retryCalls[c].phase = "rejected"
        /\ retryCalls[c].outcome = retryCalls[c].errors[3]
        /\ retryCalls[c].errors[3] # retryCalls[c].errors[1]
        /\ retryCalls[d].phase = "returned"
        /\ retryCalls[d].attempt = 2

\* ------------------------------------------------------------- alarm sound

\* no audio call is pending and the effect has run for the visible value
AudioSettled == audioOps = {} /\ effectShouldPlay = showAlarm

\* C38: once the audio calls have settled, a sound is playing exactly when the
\* alarm is visible, and at most one sound is loaded.
C38_SoundFollowsAlarm ==
    AudioSettled =>
        /\ (playingSounds # {}) <=> showAlarm
        /\ Cardinality(loadedSounds) <= 1

=============================================================================
